---- MODULE Spec2Model ----
(***************************************************************************)
(* The coroutine scheduling core of swoole (include/swoole_coroutine.h):   *)
(* the registry `coroutines`, the id allocator `last_cid`, the counters,   *)
(* the `current` pointer, the origin links, the hook slots and the         *)
(* stack-size policy.                                                      *)
(*                                                                         *)
(* Control is modelled by `callstack`, the strictly nested run()/resume()  *)
(* calls that have swapped into their target and have not returned yet,    *)
(* and by `pc`: "exec" while user code runs (the host when the callstack   *)
(* is empty, the target of the top frame otherwise), "check_end" when      *)
(* swap_in() has just returned to the caller of the top frame, and "exit"  *)
(* once the process has terminated.                                        *)
(***************************************************************************)
EXTENDS Integers, Sequences, FiniteSets, TLC

\* ---------------------------------------------------------------- bounds
MaxCid == 4            \* coroutines created in one run
MaxHookCid == 1        \* coroutines created in one run of SpecHooks
MaxNakedCid == 3       \* coroutines created in one run of SpecNaked
NumHooks == 2          \* distinct callbacks that can be registered
MaxStackSamples == 40  \* sampled stack-size requests per boundary

\* ------------------------------------------------------ program constants
nullptr == 0
STACK_ALIGNED_SIZE == 4 * 1024
MIN_STACK_SIZE == 64 * 1024
MAX_STACK_SIZE == 16 * 1024 * 1024
DEFAULT_STACK_SIZE == 2 * 1024 * 1024
\* the configured maximum coroutine count, at most MAX_NUM_LIMIT
max_num == 2

STATE_INIT == 0
STATE_WAITING == 1
STATE_RUNNING == 2
STATE_END == 3

VARIABLES
    coroutines,  \* cid -> the Coroutine object registered under that key
    current,     \* cid of the current coroutine, nullptr in host context
    last_cid,
    peak_num,
    stack_size,
    on_yield,    \* hook slots: nullptr or a callback 1..NumHooks
    on_resume,
    on_close,
    on_bailout,  \* TRUE when a bailout callback is installed
    callstack,   \* pending run()/resume() calls, innermost last
    pc,
    closed,      \* history: cids whose completion an end-check has observed
    assigned,    \* history: the ids handed out, in order of construction
    stack_req,   \* history: argument of the last set_stack_size, -1 if none
    registered,  \* history: per hook kind, the last callback registered and
                 \* whether it replaced another callback
    ev           \* history: what the last step did

vars == <<coroutines, current, last_cid, peak_num, stack_size, on_yield,
          on_resume, on_close, on_bailout, callstack, pc, closed,
          assigned, stack_req, registered, ev>>

sched == <<coroutines, current, last_cid, peak_num, callstack, pc,
           closed, assigned>>
hooks == <<on_yield, on_resume, on_close, registered>>

\* ---------------------------------------------------------------- helpers
Cids == 1..MaxCid
Callbacks == 1..NumHooks

\* static size_t count()
count == Cardinality(DOMAIN coroutines)

\* static Coroutine *get_by_cid(long cid)
get_by_cid(cid) == IF cid \in DOMAIN coroutines THEN cid ELSE nullptr

\* static long get_last_cid()
get_last_cid == last_cid

\* static Coroutine *get_current()
get_current == current

\* mutation: the completion test inverted
is_end_negated(co) == ~coroutines[co].ctx_end

\* bool is_end(): what the execution context reports
is_end(co) == coroutines[co].ctx_end

Top == callstack[Len(callstack)]
Pop(s) == SubSeq(s, 1, Len(s) - 1)

\* who runs user code while pc = "exec"
Executing == IF callstack = <<>> THEN nullptr ELSE Top.target

\* hook invocation: the slot is called when it is not null
Invoke(kind, slot) == IF slot = nullptr THEN <<>> ELSE <<<<kind, slot>>>>

NoEv == [op |-> "init", cid |-> nullptr, kind |-> "", ended |-> FALSE,
         pre_current |-> nullptr, pre_count |-> 0, end_count |-> 0,
         inner |-> FALSE, hooks |-> <<>>]

Ev(op, cid) == [NoEv EXCEPT !.op = op, !.cid = cid]

\* ------------------------------------------------------------------- Init
Init ==
    /\ coroutines = <<>>
    /\ current = nullptr
    /\ last_cid = 0
    /\ peak_num = 0
    /\ stack_size = DEFAULT_STACK_SIZE
    /\ on_yield = nullptr
    /\ on_resume = nullptr
    /\ on_close = nullptr
    /\ on_bailout = FALSE
    /\ callstack = <<>>
    /\ pc = "exec"
    /\ closed = {}
    /\ assigned = <<>>
    /\ stack_req = -1
    /\ registered = [k \in {"yield", "resume", "close"} |->
                       [func |-> nullptr, replaced |-> FALSE]]
    /\ ev = NoEv

\* ------------------------------------------------------- Coroutine::create
\* mutation: the id taken from the live count, which reuses ids
NextCidReuse(last) == count + 1

\* cid = ++last_cid
NextCid(last) == last + 1

\* mutation: the peak overwritten by every construction
PeakAfterAlways(cnt, peak) == cnt

\* mutation: the comparison inverted
PeakAfterLess(cnt, peak) == IF cnt < peak THEN cnt ELSE peak

\* if (count() > peak_num) peak_num = count()
PeakAfter(cnt, peak) == IF cnt > peak THEN cnt ELSE peak

\* mutation: the origin not taken from the current coroutine
OriginOnRunNone(cur) == nullptr

\* origin = current  (run)
OriginOnRun(cur) == cur

\* Coroutine(fn, private_data): the object, registered under its cid
Constructor(cid) ==
    /\ last_cid' = cid
    /\ assigned' = Append(assigned, cid)
    /\ peak_num' = PeakAfter(Cardinality(DOMAIN coroutines \cup {cid}), peak_num)

Frame(kind, target) ==
    [kind |-> kind, caller |-> Executing, target |-> target,
     pre_current |-> current, pre_count |-> count, inner |-> FALSE]

\* the caller's own frame learns that its target made a transfer itself
Push(f) ==
    IF callstack = <<>> THEN <<f>>
    ELSE Append([callstack EXCEPT ![Len(callstack)].inner = TRUE], f)

\* create(fn, args): (new Coroutine(fn, args))->run(), up to ctx.swap_in()
create ==
    /\ pc = "exec"
    /\ last_cid < MaxCid
    /\ LET cid == NextCid(last_cid)
           co == [state |-> STATE_INIT, cid |-> cid,
                  origin |-> OriginOnRun(current), ctx_end |-> FALSE]
       IN /\ Constructor(cid)
          /\ coroutines' = [k \in DOMAIN coroutines \cup {cid} |->
                              IF k = cid THEN co ELSE coroutines[k]]
          /\ current' = cid
          /\ callstack' = Push(Frame("run", cid))
          /\ ev' = [Ev("create", cid) EXCEPT !.pre_count = count,
                                             !.pre_current = current]
    /\ UNCHANGED <<pc, closed, stack_size, stack_req, hooks, on_bailout>>

\* ------------------------------------------------------- Coroutine::resume
\* resume() without its hook: state = RUNNING, then the bookkeeping of run()
resume_transfer(co) ==
    /\ pc = "exec"
    /\ co \in DOMAIN coroutines
    /\ coroutines[co].state = STATE_WAITING
    /\ co # current
    /\ coroutines' = [coroutines EXCEPT ![co].state = STATE_RUNNING,
                                        ![co].origin = OriginOnRun(current)]
    /\ current' = co
    /\ callstack' = Push(Frame("resume", co))
    /\ UNCHANGED <<pc, last_cid, peak_num, assigned, closed,
                   stack_size, stack_req, hooks, on_bailout>>

\* resume(): the pre-resume hook and the transfer
resume(co) ==
    /\ resume_transfer(co)
    /\ ev' = [Ev("resume", co) EXCEPT !.hooks = Invoke("resume", on_resume)]

\* mutation: the origin of the target left as it was
resume_naked_stale_origin(co) ==
    /\ pc = "exec"
    /\ co \in DOMAIN coroutines
    /\ coroutines[co].state = STATE_WAITING
    /\ co # current
    /\ coroutines' = [coroutines EXCEPT ![co].state = STATE_RUNNING]
    /\ current' = co
    /\ callstack' = Push(Frame("resume", co))
    /\ ev' = Ev("resume_naked", co)
    /\ UNCHANGED <<pc, last_cid, peak_num, assigned, closed,
                   stack_size, stack_req, hooks, on_bailout>>

\* resume_naked(): state = RUNNING, origin = current, current = this,
\* ctx.swap_in(); no hook is called
resume_naked(co) ==
    /\ pc = "exec"
    /\ co \in DOMAIN coroutines
    /\ coroutines[co].state = STATE_WAITING
    /\ co # current
    /\ coroutines' = [c \in DOMAIN coroutines |->
                        IF c = co
                        THEN [state |-> STATE_RUNNING, cid |-> coroutines[c].cid,
                              origin |-> current,
                              ctx_end |-> coroutines[c].ctx_end]
                        ELSE coroutines[c]]
    /\ current' = co
    /\ callstack' = Push(Frame("resume", co))
    /\ ev' = Ev("resume_naked", co)
    /\ UNCHANGED <<pc, last_cid, peak_num, assigned, closed,
                   stack_size, stack_req, hooks, on_bailout>>

\* -------------------------------------------------------- Coroutine::yield
\* current = origin  (yield)
CurrentOnYield(co) == coroutines[co].origin

\* yield() without its hook: state = WAITING, current = origin,
\* ctx.swap_out()
yield_transfer ==
    /\ pc = "exec"
    /\ callstack # <<>>
    /\ LET co == Executing
       IN /\ co = current
          /\ coroutines' = [coroutines EXCEPT ![co].state = STATE_WAITING]
          /\ current' = CurrentOnYield(co)
    /\ pc' = "check_end"
    /\ UNCHANGED <<callstack, last_cid, peak_num, assigned, closed,
                   stack_size, stack_req, hooks, on_bailout>>

\* yield(): the pre-yield hook and the transfer
yield ==
    /\ yield_transfer
    /\ ev' = [Ev("yield", Executing) EXCEPT !.hooks = Invoke("yield", on_yield)]

\* yield_naked(): state = WAITING, current = origin, ctx.swap_out(); no
\* hook is called
yield_naked ==
    /\ pc = "exec"
    /\ callstack # <<>>
    /\ Executing = current
    /\ coroutines' = [c \in DOMAIN coroutines |->
                        IF c = current
                        THEN [state |-> STATE_WAITING, cid |-> coroutines[c].cid,
                              origin |-> coroutines[c].origin,
                              ctx_end |-> coroutines[c].ctx_end]
                        ELSE coroutines[c]]
    /\ current' = coroutines[current].origin
    /\ pc' = "check_end"
    /\ ev' = Ev("yield_naked", current)
    /\ UNCHANGED <<callstack, last_cid, peak_num, assigned, closed,
                   stack_size, stack_req, hooks, on_bailout>>

\* the coroutine's function returns: its context is finished and control
\* goes back to the caller of swap_in()
fn_return ==
    /\ pc = "exec"
    /\ callstack # <<>>
    /\ LET co == Executing
       IN /\ coroutines' = [coroutines EXCEPT ![co].ctx_end = TRUE]
          /\ ev' = Ev("fn_return", co)
    /\ pc' = "check_end"
    /\ UNCHANGED <<current, callstack, last_cid, peak_num, assigned,
                   closed, stack_size, stack_req, hooks, on_bailout>>

\* ---------------------------------------------------- Coroutine::check_end
\* coroutines.erase(cid); delete this
Erase(co) == [k \in DOMAIN coroutines \ {co} |-> coroutines[k]]

\* close(): state = END, pre-close hook, current = origin, erase, delete
close(co) ==
    /\ coroutines' = Erase(co)
    /\ current' = coroutines[co].origin
    /\ closed' = closed \cup {co}

\* run()/resume() return to their caller; `closing` tells whether the
\* end-check has just closed the target
Return(f, closing) ==
    /\ callstack' = Pop(callstack)
    /\ pc' = "exec"
    /\ ev' = [op |-> "return", cid |-> f.target, kind |-> f.kind,
              ended |-> coroutines[f.target].ctx_end,
              pre_current |-> f.pre_current, pre_count |-> f.pre_count,
              end_count |-> count, inner |-> f.inner,
              hooks |-> IF closing THEN Invoke("close", on_close) ELSE <<>>]

\* SW_ASSERT(current == nullptr); on_bailout(); exit(1).  The assertion is
\* compiled in or out by the build: with a coroutine current the process
\* either aborts in the assertion or runs the callback and exits.
Bailout(f) ==
    /\ pc' = "exit"
    /\ \/ ev' = Ev("bailout", f.target)
       \/ /\ current # nullptr
          /\ ev' = Ev("abort", f.target)
    /\ UNCHANGED <<coroutines, current, closed, callstack>>

\* check_end(), then `return cid`
check_end ==
    /\ pc = "check_end"
    /\ LET f == Top
       IN IF is_end(f.target)
          THEN close(f.target) /\ Return(f, TRUE)
          ELSE IF on_bailout
               THEN Bailout(f)
               ELSE Return(f, FALSE) /\ UNCHANGED <<coroutines, current, closed>>
    /\ UNCHANGED <<last_cid, peak_num, assigned, stack_size,
                   stack_req, hooks, on_bailout>>

\* ------------------------------------------------------------------- hooks
\* history of a registration: the callback, and whether a different
\* callback sat in the slot
Registered(kind, slot, func) ==
    [registered EXCEPT ![kind] =
        [func |-> func, replaced |-> slot # nullptr /\ slot # func]]

\* mutation: a registration into an occupied slot is ignored
set_on_yield_keep_first(func) ==
    /\ pc = "exec"
    /\ on_yield' = IF on_yield = nullptr THEN func ELSE on_yield
    /\ registered' = Registered("yield", on_yield, func)
    /\ ev' = Ev("set_on_yield", nullptr)
    /\ UNCHANGED <<sched, on_resume, on_close, on_bailout, stack_size, stack_req>>

set_on_yield(func) ==
    /\ pc = "exec"
    /\ on_yield' = func
    /\ registered' = Registered("yield", on_yield, func)
    /\ ev' = Ev("set_on_yield", nullptr)
    /\ UNCHANGED <<sched, on_resume, on_close, on_bailout, stack_size, stack_req>>

set_on_resume(func) ==
    /\ pc = "exec"
    /\ on_resume' = func
    /\ registered' = Registered("resume", on_resume, func)
    /\ ev' = Ev("set_on_resume", nullptr)
    /\ UNCHANGED <<sched, on_yield, on_close, on_bailout, stack_size, stack_req>>

set_on_close(func) ==
    /\ pc = "exec"
    /\ on_close' = func
    /\ registered' = Registered("close", on_close, func)
    /\ ev' = Ev("set_on_close", nullptr)
    /\ UNCHANGED <<sched, on_yield, on_resume, on_bailout, stack_size, stack_req>>

\* bailout(func): install the bailout callback
bailout ==
    /\ pc = "exec"
    /\ ~on_bailout
    /\ on_bailout' = TRUE
    /\ ev' = Ev("bailout_set", nullptr)
    /\ UNCHANGED <<sched, hooks, stack_size, stack_req>>

\* ------------------------------------------------ Coroutine::get_current_safe
\* mutation: the test of the current pointer inverted
OutOfCoroutineInverted(cur) == cur # nullptr

\* if (!current)
OutOfCoroutine(cur) == cur = nullptr

\* get_current_safe(): swFatalError(...) terminates the caller when no
\* coroutine is current, otherwise `return current`
get_current_safe ==
    /\ pc = "exec"
    /\ IF OutOfCoroutine(current)
       THEN /\ pc' = "exit"
            /\ ev' = [Ev("fatal_error", nullptr) EXCEPT !.pre_current = current]
       ELSE /\ pc' = pc
            /\ ev' = [Ev("get_current_safe", current)
                          EXCEPT !.pre_current = current]
    /\ UNCHANGED <<coroutines, current, last_cid, peak_num, callstack, closed,
                   assigned, hooks, on_bailout, stack_size, stack_req>>

\* -------------------------------------------------------------- stack size
SW_MIN(a, b) == IF a < b THEN a ELSE b
SW_MAX(a, b) == IF a > b THEN a ELSE b
\* ((size) + ((alignment) - 1)) & ~((alignment) - 1), alignment a power of 2
SW_MEM_ALIGNED_SIZE_EX(size, alignment) ==
    (size + (alignment - 1)) - ((size + (alignment - 1)) % alignment)

\* mutation: the clamped size stored without alignment
StackSizeForUnaligned(size) ==
    SW_MAX(MIN_STACK_SIZE, SW_MIN(size, MAX_STACK_SIZE))

StackSizeFor(size) ==
    SW_MEM_ALIGNED_SIZE_EX(SW_MAX(MIN_STACK_SIZE, SW_MIN(size, MAX_STACK_SIZE)),
                           STACK_ALIGNED_SIZE)

StackInputs ==
    UNION { {b + d, b - d} : d \in 0..MaxStackSamples,
            b \in {MaxStackSamples, MIN_STACK_SIZE,
                   MIN_STACK_SIZE + STACK_ALIGNED_SIZE,
                   MAX_STACK_SIZE - STACK_ALIGNED_SIZE, MAX_STACK_SIZE,
                   2^30} }

set_stack_size(size) ==
    /\ pc = "exec"
    /\ stack_size' = StackSizeFor(size)
    /\ stack_req' = size
    /\ ev' = Ev("set_stack_size", nullptr)
    /\ UNCHANGED <<sched, hooks, on_bailout>>

\* ------------------------------------------------------------------ claims
Live == DOMAIN coroutines

\* the coroutines reached from c through origin links inside the registry
RECURSIVE OriginChain(_, _)
OriginChain(c, fuel) ==
    IF c = nullptr \/ c \notin Live \/ fuel = 0 THEN {}
    ELSE {c} \cup OriginChain(coroutines[c].origin, fuel - 1)

ActiveChain == OriginChain(current, MaxCid + 1)

CreateReturned == ev.op = "return" /\ ev.kind = "run"

\* C1: every created coroutine gets an id strictly greater than every id
\* assigned before it, the first id is 1, and no id is assigned twice, also
\* after the coroutine that held it has been deregistered.
C1_IdsIncrease ==
    /\ Len(assigned) > 0 => assigned[1] = 1
    /\ \A i, j \in 1..Len(assigned) : i < j => assigned[i] < assigned[j]

\* a nested creation after an earlier coroutine has been deregistered
C1_Witness ==
    /\ ev.op = "create"
    /\ Len(assigned) >= 3
    /\ closed # {}
    /\ coroutines[ev.cid].origin # nullptr

\* C2 (as stated): when create() returns and the function returned without
\* yielding, the id is not found and count() equals the live count before
\* the create() call.
C2_AsStated ==
    (CreateReturned /\ ev.ended) =>
        /\ get_by_cid(ev.cid) = nullptr
        /\ count = ev.pre_count

\* C2 (amended): when create() returns and the function returned without
\* yielding, the id is not found and count() is one less than the live count
\* at the moment the function returned; it equals the live count before the
\* create() call when the function made no create() or resume() of its own.
C2_AbsentAfterCreate ==
    (CreateReturned /\ ev.ended) =>
        /\ get_by_cid(ev.cid) = nullptr
        /\ count = ev.end_count - 1
        /\ ~ev.inner => count = ev.pre_count

C2_Witness ==
    /\ CreateReturned /\ ev.ended /\ ~ev.inner
    /\ ev.pre_count > 0
    /\ count = ev.pre_count

\* C3: when create() returns and the function yielded before returning, the
\* returned id is in the registry, its state is Waiting and get_current() is
\* what it was immediately before create() was called.
C3_WaitingAfterCreate ==
    (CreateReturned /\ ~ev.ended) =>
        /\ get_by_cid(ev.cid) = ev.cid
        /\ coroutines[ev.cid].state = STATE_WAITING
        /\ get_current = ev.pre_current

\* create() called from inside a coroutine, the child yielded
C3_Witness ==
    /\ CreateReturned /\ ~ev.ended
    /\ ev.pre_current # nullptr
    /\ get_current = ev.pre_current

\* C4: a coroutine is in the registry from its construction until the
\* end-check observes its completion and in no later state; an entry whose
\* context reports completion exists only until the end-check that follows.
C4_RegisteredUntilEnd ==
    /\ closed \cap Live = {}
    /\ Live = (1..last_cid) \ closed
    /\ \A c \in Live : coroutines[c].ctx_end =>
            pc = "check_end" /\ Top.target = c

\* a coroutine was created after another one had been closed
C4_Witness ==
    /\ closed # {}
    /\ ev.op = "create"
    /\ \E c \in closed : c < ev.cid

ChainOrigins ==
    \A i \in 1..Len(callstack) :
        /\ callstack[i].target \in Live
        /\ coroutines[callstack[i].target].origin = callstack[i].caller
        /\ callstack[i].caller =
              IF i = 1 THEN nullptr ELSE callstack[i - 1].target

\* C5: a yield returns control to the immediate resumer: after a yield the
\* current coroutine is the caller of the innermost pending transfer, and the
\* origin of every coroutine on the active chain is the one that transferred
\* into it.
C5_YieldToImmediateResumer ==
    /\ pc = "exec" => ChainOrigins /\ current = Executing
    /\ ev.op = "yield" => ChainOrigins /\ current = Top.caller

\* the innermost of three nested coroutines has yielded
C5_Witness ==
    /\ ev.op = "yield"
    /\ Len(callstack) >= 3
    /\ current = callstack[Len(callstack) - 1].target

\* C6: the peak count is at least the live count in every state and never
\* decreases from one state to the next.
C6_PeakMonotone ==
    /\ [](peak_num >= count)
    /\ [][peak_num' >= peak_num]_vars

C6_Witness ==
    /\ count > 0
    /\ peak_num > count
    /\ closed # {}

\* C7: after set_stack_size(x), get_stack_size() is MIN_STACK_SIZE for x
\* below the minimum, MAX_STACK_SIZE for x above the maximum, and otherwise
\* the smallest multiple of STACK_ALIGNED_SIZE that is >= x; it is always an
\* aligned size within [MIN_STACK_SIZE, MAX_STACK_SIZE], and every request
\* is applied.
C7_StackSizeClamped ==
    /\ stack_size % STACK_ALIGNED_SIZE = 0
    /\ stack_size >= MIN_STACK_SIZE
    /\ stack_size <= MAX_STACK_SIZE
    /\ stack_req # -1 =>
          /\ ev.op = "set_stack_size"
          /\ stack_req < MIN_STACK_SIZE => stack_size = MIN_STACK_SIZE
          /\ stack_req > MAX_STACK_SIZE => stack_size = MAX_STACK_SIZE
          /\ (stack_req >= MIN_STACK_SIZE /\ stack_req <= MAX_STACK_SIZE) =>
                /\ stack_size >= stack_req
                /\ stack_size - STACK_ALIGNED_SIZE < stack_req

\* an in-range request that is not aligned has been rounded up
C7_Witness ==
    /\ stack_req = MIN_STACK_SIZE + 1
    /\ stack_size = MIN_STACK_SIZE + STACK_ALIGNED_SIZE

HookFired(op, kind) ==
    ev.op = op => ev.hooks = Invoke(kind, registered[kind].func)

HooksLastWins ==
    /\ HookFired("yield", "yield")
    /\ HookFired("resume", "resume")
    /\ (ev.op = "return" /\ ev.cid \in closed /\ ev.cid \notin Live) =>
            ev.hooks = Invoke("close", registered["close"].func)
    /\ (ev.op = "return" /\ ev.cid \in Live) => ev.hooks = <<>>
    /\ ev.op \notin {"yield", "resume", "return"} => ev.hooks = <<>>

OtherSlotsKept ==
    /\ ev'.op = "set_on_yield" => on_resume' = on_resume /\ on_close' = on_close
    /\ ev'.op = "set_on_resume" => on_yield' = on_yield /\ on_close' = on_close
    /\ ev'.op = "set_on_close" => on_yield' = on_yield /\ on_resume' = on_resume

\* C8: each hook kind has one slot: a transition of a kind invokes the
\* callback registered last for that kind, once, and no other callback; a
\* registration for one kind leaves the slots of the other kinds unchanged.
C8_HookSlots ==
    /\ []HooksLastWins
    /\ [][OtherSlotsKept]_vars

\* a yield after a second pre-yield callback replaced the first one
C8_Witness ==
    /\ ev.op = "yield"
    /\ registered["yield"].replaced
    /\ ev.hooks = <<<<"yield", registered["yield"].func>>>>

AllCreated == callstack = <<>> /\ closed = {} /\ ev.op = "return"
AllResumed == callstack = <<>> /\ last_cid > 0 /\ closed = 1..last_cid

\* C9: after N coroutines are created from the host, each yielding once,
\* count() is N; after each has been resumed once and has returned, count()
\* is 0 and the peak count is N.
C9_Scenario ==
    /\ AllCreated => count = last_cid
    /\ AllResumed => count = 0 /\ peak_num = last_cid

C9_Witness ==
    /\ AllResumed
    /\ last_cid >= 3
    /\ count = 0
    /\ peak_num = last_cid

\* C10 (as stated): at most one coroutine has state Running.
Running == {c \in Live : coroutines[c].state = STATE_RUNNING}

C10_AsStated == Cardinality(Running) <= 1

\* C10 (amended): the coroutine that executes is the current one, and every
\* coroutine whose state is Running is the current coroutine or is blocked
\* inside a resume() or create() on the chain of origins of the current one.
C10_RunningOnActiveChain ==
    /\ pc = "exec" => current = Executing
    /\ Running \subseteq ActiveChain

\* a Running coroutine blocked inside resume() of another Running coroutine
C10_Witness ==
    /\ pc = "exec"
    /\ current \in Running
    /\ coroutines[current].origin \in Running

\* C11: a create() requested while the live count is at or above the
\* maximum coroutine count creates and runs no coroutine (it returns the
\* Limit code): no coroutine is ever constructed from such a state.
C11_AsStated == ev.op = "create" => ev.pre_count < max_num

SafeStep ==
    ev'.op \in {"get_current_safe", "fatal_error"} =>
        /\ coroutines' = coroutines
        /\ current' = current
        /\ (ev'.op = "fatal_error") = (get_current = nullptr)
        /\ ev'.op = "get_current_safe" =>
              /\ ev'.cid = get_current
              /\ ev'.cid \in Live
        /\ ev'.op = "fatal_error" => pc' = "exit"

\* C12: get_current_safe() raises the fatal error exactly when no coroutine
\* is current; otherwise it returns the current coroutine, as get_current()
\* does; in both cases the registry, the current pointer and the coroutines'
\* states are left as they were.
C12_CurrentSafe == [][SafeStep]_vars

\* get_current_safe() returned the current coroutine inside a nested one
C12_Witness ==
    /\ ev.op = "get_current_safe"
    /\ ev.cid = current
    /\ Len(callstack) >= 2

\* the coroutines met from c by following origin links, c first; the walk
\* stops at nullptr, at a reference that is not registered, or out of fuel
RECURSIVE OriginSeq(_, _)
OriginSeq(c, fuel) ==
    IF c = nullptr \/ c \notin Live \/ fuel = 0 THEN <<>>
    ELSE <<c>> \o OriginSeq(coroutines[c].origin, fuel - 1)

CurrentChain == OriginSeq(current, MaxCid + 1)

\* the chain ends at nullptr (host context), not at an unregistered coroutine
EndsAtHost ==
    IF CurrentChain = <<>> THEN current = nullptr
    ELSE coroutines[CurrentChain[Len(CurrentChain)]].origin = nullptr

Acyclic ==
    \A i, j \in 1..Len(CurrentChain) : i # j => CurrentChain[i] # CurrentChain[j]

\* the run()/resume() calls whose target has been entered and has not
\* transferred out: after a yield the innermost call is on its way back
Nesting ==
    IF callstack # <<>> /\ pc # "exec" /\ ~coroutines[Top.target].ctx_end
    THEN Len(callstack) - 1
    ELSE Len(callstack)

\* C13: following origin references from the current coroutine gives an
\* acyclic chain that ends at none (host context), and the number of
\* coroutines on it is the depth of nested run()/resume() calls.
C13_OriginChainDepth ==
    /\ Acyclic
    /\ EndsAtHost
    /\ Len(CurrentChain) = Nesting
    /\ pc = "exec" => Len(CurrentChain) = Len(callstack)

\* three coroutines nested, the middle one entered by resume()
C13_Witness ==
    /\ pc = "exec"
    /\ Len(CurrentChain) = 3
    /\ callstack[2].kind = "resume"
    /\ callstack[3].kind = "run"

\* C14: a coroutine is Init from construction, Running from its first
\* transfer-in by run(), Waiting after a yield, Running again after a
\* resume: whenever a coroutine is the current one and executes, its state
\* is Running, never Init.
C14_AsStated ==
    (pc = "exec" /\ current # nullptr) =>
        coroutines[current].state = STATE_RUNNING

EndCheckExit == pc = "exit" /\ ev.op \in {"bailout", "abort"}

\* C15: the end-check terminates the process only when the target's context
\* has not completed, a bailout callback is installed and no coroutine is
\* current; a yield to a resumer that is still current does not bail out.
C15_AsStated ==
    EndCheckExit =>
        /\ ~coroutines[ev.cid].ctx_end
        /\ on_bailout
        /\ current = nullptr

\* C16: once the end-check takes the bailout branch the diagnostic callback
\* runs and the process then terminates: the run()/resume() call does not
\* return and no coroutine is created, resumed or yielded afterwards.
C16_AsStated ==
    EndCheckExit =>
        /\ ev.op = "bailout"
        /\ callstack # <<>>
        /\ ~ENABLED create
        /\ ~ENABLED yield
        /\ ~ENABLED check_end
        /\ \A co \in Cids : ~ENABLED resume(co)

ReturnedAfterYieldOrEnd ==
    ev.op = "return" =>
        /\ get_current = ev.pre_current
        /\ IF ev.ended
           THEN ev.cid \notin Live /\ ev.cid \in closed
           ELSE ev.cid \in Live /\ coroutines[ev.cid].state = STATE_WAITING

\* a coroutine leaves the registry only in the end-check of the call that
\* transferred into it, with control back at the caller
ClosedByCaller ==
    (closed' # closed \/ ~(Live \subseteq Live')) =>
        /\ pc = "check_end"
        /\ coroutines[Top.target].ctx_end
        /\ closed' = closed \cup {Top.target}
        /\ Live' = Live \ {Top.target}
        /\ ev'.op = "return" /\ ev'.cid = Top.target
        /\ callstack' = Pop(callstack)

\* C17: a run()/resume() call returns only after its target has yielded or
\* ended, with get_current() as it was before the call; an ended target is
\* destroyed and deregistered inside that call, by the caller, after
\* control has left the target.
C17_ReturnRestoresCurrent ==
    /\ []ReturnedAfterYieldOrEnd
    /\ [][ClosedByCaller]_vars

\* a resume() made inside a coroutine returned because the target ended
C17_Witness ==
    /\ ev.op = "return"
    /\ ev.kind = "resume"
    /\ ev.ended
    /\ ev.pre_current # nullptr
    /\ get_current = ev.pre_current

NakedAsHooked ==
    /\ ev'.op = "resume_naked" => resume_transfer(ev'.cid) /\ ev'.hooks = <<>>
    /\ ev'.op = "yield_naked" => yield_transfer /\ ev'.hooks = <<>>

\* C18: resume_naked() and yield_naked() change the coroutine's state, its
\* origin, the current pointer, the registry and the pending end-check
\* exactly as resume() and yield() do from the same state, and call no hook.
C18_NakedEquivalent == [][NakedAsHooked]_vars

\* a naked yield with a pre-yield callback registered, after a naked resume
C18_Witness ==
    /\ ev.op = "yield_naked"
    /\ on_yield # nullptr
    /\ ev.hooks = <<>>
    /\ coroutines[ev.cid].state = STATE_WAITING
    /\ Top.kind = "resume"
    /\ Top.caller # nullptr

\* C19: every key k of the registry satisfies 1 <= k <= last_cid and maps
\* to the coroutine whose own id is k (so an id never changes), count() is
\* the number of coroutines created minus the number closed, and
\* get_last_cid() is the number of coroutines ever created.
C19_RegistryKeys ==
    /\ \A k \in Live : 1 <= k /\ k <= get_last_cid /\ coroutines[k].cid = k
    /\ count = Len(assigned) - Cardinality(closed)
    /\ get_last_cid = Len(assigned)

\* coroutines created, some closed, some still registered
C19_Witness ==
    /\ Len(assigned) >= 3
    /\ Cardinality(closed) >= 1
    /\ count >= 2
    /\ \E k \in Live : \E c \in closed : c > k

\* C20: the origin of every registered coroutine is none or a coroutine
\* that is still in the registry.
C20_AsStated ==
    \A c \in Live :
        coroutines[c].origin = nullptr \/ coroutines[c].origin \in Live

\* ---------------------------------------------------------- specifications
Next ==
    \/ create
    \/ \E co \in Cids : resume(co)
    \/ yield
    \/ fn_return
    \/ check_end
    \/ bailout
    \/ get_current_safe

Spec == Init /\ [][Next]_vars

\* the scheduler with hook registration, for at most MaxHookCid coroutines
create_hooked ==
    /\ last_cid < MaxHookCid
    /\ create

NextHooks ==
    \/ create_hooked
    \/ \E co \in Cids : resume(co)
    \/ yield
    \/ fn_return
    \/ check_end
    \/ bailout
    \/ \E func \in {nullptr} \cup Callbacks : set_on_yield(func)
    \/ \E func \in {nullptr} \cup Callbacks : set_on_resume(func)
    \/ \E func \in {nullptr} \cup Callbacks : set_on_close(func)

SpecHooks == Init /\ [][NextHooks]_vars

\* the scheduler with the naked transfers beside the hooked ones, for at
\* most MaxNakedCid coroutines, with one callback to register per hook
create_bounded ==
    /\ last_cid < MaxNakedCid
    /\ create

NextNaked ==
    \/ create_bounded
    \/ \E co \in Cids : resume(co)
    \/ \E co \in Cids : resume_naked(co)
    \/ yield
    \/ yield_naked
    \/ fn_return
    \/ check_end
    \/ \E func \in 1..1 : set_on_yield(func)
    \/ \E func \in 1..1 : set_on_resume(func)

SpecNaked == Init /\ [][NextNaked]_vars

NextStack == \E size \in StackInputs : set_stack_size(size)

SpecStack == Init /\ [][NextStack]_vars

\* the scenario of N coroutines created from the host, each yielding once
\* and returning when resumed: all creations first, then the resumptions
create_from_host ==
    /\ callstack = <<>>
    /\ closed = {}
    /\ \A c \in DOMAIN coroutines : coroutines[c].state = STATE_WAITING
    /\ create

yield_once ==
    /\ callstack # <<>>
    /\ coroutines[Executing].state = STATE_INIT
    /\ yield

resume_from_host ==
    /\ callstack = <<>>
    /\ \E co \in Cids : resume(co)

return_when_resumed ==
    /\ callstack # <<>>
    /\ coroutines[Executing].state = STATE_RUNNING
    /\ fn_return

NextScenario ==
    \/ create_from_host
    \/ yield_once
    \/ resume_from_host
    \/ return_when_resumed
    \/ check_end

SpecScenario == Init /\ [][NextScenario]_vars
====
